---- MODULE Spec2Model ----
(***************************************************************************)
(* A model of sms-moneybot (src/main.py): the SMS parser, the SQLite       *)
(* ledger (tables data, ignored_cards, notified) and the Telegram          *)
(* handlers that drive them.                                               *)
(*                                                                         *)
(* A text is a sequence of one-character strings.  The Cyrillic keyword    *)
(* of the pattern is written with the Latin letters z a r p l a t y, one   *)
(* per Cyrillic letter; "r" also stands for the rouble sign that follows   *)
(* an amount.  An amount (a Python float) is held exactly, in hundredths.  *)
(* A datetime is the tuple <<year, month, day, hour, minute>>.             *)
(***************************************************************************)
EXTENDS Integers, Sequences, FiniteSets, Bags, TLC

VARIABLES
    data,           \* table data: a bag of rows
    ignored_cards,  \* table ignored_cards: a bag of <<chat_id, ignore_card>>
    notified,       \* table notified: a bag of <<chat_id, notify>>
    keyboards,      \* the buttons Telegram shows: set of <<chat_id, callback_data>>
    op,             \* the update the dispatcher handed to a handler last
    out,            \* what that handler sent, in order
    err,            \* the exception that ended that handler, or "none"
    queries,        \* the wage_calc calls that handler made, in order
    parts,          \* SpecParse: the pieces the text under test was composed of
    text,           \* SpecParse: the text under test
    res,            \* SpecParse: what parse_sms(text) gave
    prompts         \* SpecConfirm, history: the purge prompts asked for and not
                    \* cancelled, as <<user_id, chat_id, callback_data>>

vars == <<data, ignored_cards, notified, keyboards, op, out, err, queries,
         parts, text, res, prompts>>

-----------------------------------------------------------------------------
(* Characters                                                              *)

UpperChars == {"A","B","C","D","E","F","G","H","I","J","K","L","M",
               "N","O","P","Q","R","S","T","U","V","W","X","Y","Z"}

DigitChars == <<"0","1","2","3","4","5","6","7","8","9">>

\* \d
IsDigit(c) == \E i \in 1..Len(DigitChars) : DigitChars[i] = c

\* [A-Z]
IsUpper(c) == c \in UpperChars

\* \D
IsNonDigit(c) == ~IsDigit(c)

DigitVal(c) == (CHOOSE i \in 1..Len(DigitChars) : DigitChars[i] = c) - 1

RECURSIVE Num(_)
\* int() of a run of digits
Num(ds) == IF Len(ds) = 0 THEN 0
           ELSE 10 * Num(SubSeq(ds, 1, Len(ds) - 1)) + DigitVal(ds[Len(ds)])

\* the literal keyword of sms_pattern
KEYWORD == <<"z","a","r","p","l","a","t","y">>

-----------------------------------------------------------------------------
(* parse_sms: sms_pattern.search(text).groups(), strptime, float           *)

\* ([A-Z]{4}\d{4}) at position i
CardAt(t, i) ==
    /\ i >= 1
    /\ i + 7 <= Len(t)
    /\ \A k \in 0..3 : IsUpper(t[i + k])
    /\ \A k \in 4..7 : IsDigit(t[i + k])

\* (\d{2}\.\d{2}\.\d{2}\ \d{2}:\d{2}) at position i
DateAt(t, i) ==
    /\ i >= 1
    /\ i + 13 <= Len(t)
    /\ \A k \in {0, 1, 3, 4, 6, 7, 9, 10, 12, 13} : IsDigit(t[i + k])
    /\ t[i + 2] = "."
    /\ t[i + 5] = "."
    /\ t[i + 8] = " "
    /\ t[i + 11] = ":"

\* the keyword at position i
KeywordAt(t, i) ==
    /\ i >= 1
    /\ i + Len(KEYWORD) - 1 <= Len(t)
    /\ \A k \in 1..Len(KEYWORD) : t[i + k - 1] = KEYWORD[k]

\* the end (exclusive) of the longest run of digits from i on: greedy \d+, \d*
DigitsEnd(t, i) ==
    CHOOSE j \in i..(Len(t) + 1) :
        /\ \A k \in i..(j - 1) : IsDigit(t[k])
        /\ (j = Len(t) + 1 \/ ~IsDigit(t[j]))

\* the end (exclusive) of the longest run of dots from i on: greedy \.*
DotsEnd(t, i) ==
    CHOOSE j \in i..(Len(t) + 1) :
        /\ \A k \in i..(j - 1) : t[k] = "."
        /\ (j = Len(t) + 1 \/ t[j] # ".")

\* where the date starts in a match of the pattern that starts at s: after
\* the card and one space or more
DateStarts(t, s) ==
    {b \in (s + 9)..Len(t) :
        /\ \A k \in (s + 8)..(b - 1) : t[k] = " "
        /\ DateAt(t, b)}

\* AmountStarts for a pattern without the keyword: \D* then the amount
AmountStarts_nokeyword(t, b) ==
    {q \in (b + 14)..Len(t) :
        /\ IsDigit(t[q])
        /\ \A j \in (b + 14)..(q - 1) : IsNonDigit(t[j])}

\* where the amount starts in a match whose date starts at b: after \D*, the
\* keyword, \D*, at a digit
AmountStarts(t, b) ==
    {q \in (b + 14)..Len(t) :
        /\ IsDigit(t[q])
        /\ \E k \in (b + 14)..q :
              /\ \A j \in (b + 14)..(k - 1) : IsNonDigit(t[j])
              /\ KeywordAt(t, k)
              /\ k + Len(KEYWORD) <= q
              /\ \A j \in (k + Len(KEYWORD))..(q - 1) : IsNonDigit(t[j])}

\* the pattern matches at position s
MatchesAt(t, s) ==
    /\ CardAt(t, s)
    /\ \E b \in DateStarts(t, s) : AmountStarts(t, b) # {}

\* the three groups of the match at s; (\d+\.*\d*) is greedy
GroupsAt(t, s) ==
    LET b  == CHOOSE b \in DateStarts(t, s) : AmountStarts(t, b) # {}
        q  == CHOOSE q \in AmountStarts(t, b) : TRUE
        e1 == DigitsEnd(t, q)
        e2 == DotsEnd(t, e1)
        e3 == DigitsEnd(t, e2)
    IN  [card   |-> SubSeq(t, s, s + 7),
         date   |-> SubSeq(t, b, b + 13),
         whole  |-> SubSeq(t, q, e1 - 1),
         dots   |-> e2 - e1,
         frac   |-> SubSeq(t, e2, e3 - 1)]

\* sms_pattern.search(text): the groups of the leftmost match, or None
Search(t) ==
    IF \E s \in 1..Len(t) : MatchesAt(t, s)
    THEN [found |-> TRUE,
          groups |-> GroupsAt(t, CHOOSE s \in 1..Len(t) :
                                    /\ MatchesAt(t, s)
                                    /\ \A s2 \in 1..(s - 1) : ~MatchesAt(t, s2))]
    ELSE [found |-> FALSE]

IsLeap(y) == (y % 4 = 0 /\ y % 100 # 0) \/ y % 400 = 0

DaysIn(y, m) ==
    CASE m \in {1, 3, 5, 7, 8, 10, 12} -> 31
      [] m \in {4, 6, 9, 11} -> 30
      [] OTHER -> IF IsLeap(y) THEN 29 ELSE 28

\* datetime.datetime(year, month, day, hour, minute) is accepted
ValidDateTime(y, m, d, hh, mi) ==
    /\ y \in 1..9999
    /\ m \in 1..12
    /\ d \in 1..DaysIn(y, m)
    /\ hh \in 0..23
    /\ mi \in 0..59

\* Strptime for the format "%m.%d.%y %H:%M"
Strptime_monthfirst(s) ==
    LET m  == Num(SubSeq(s, 1, 2))
        d  == Num(SubSeq(s, 4, 5))
        yy == Num(SubSeq(s, 7, 8))
        hh == Num(SubSeq(s, 10, 11))
        mi == Num(SubSeq(s, 13, 14))
        y  == IF yy < 69 THEN 2000 + yy ELSE 1900 + yy
    IN  IF ValidDateTime(y, m, d, hh, mi)
        THEN [ok |-> TRUE, val |-> <<y, m, d, hh, mi>>]
        ELSE [ok |-> FALSE]

\* datetime.datetime.strptime(s, "%d.%m.%y %H:%M"); not ok is ValueError
Strptime(s) ==
    LET d  == Num(SubSeq(s, 1, 2))
        m  == Num(SubSeq(s, 4, 5))
        yy == Num(SubSeq(s, 7, 8))
        hh == Num(SubSeq(s, 10, 11))
        mi == Num(SubSeq(s, 13, 14))
        y  == IF yy < 69 THEN 2000 + yy ELSE 1900 + yy
    IN  IF ValidDateTime(y, m, d, hh, mi)
        THEN [ok |-> TRUE, val |-> <<y, m, d, hh, mi>>]
        ELSE [ok |-> FALSE]

\* float(s) of a matched amount, in hundredths; not ok is ValueError.  The
\* amounts of the model have at most two fractional digits.
Float(whole, dots, frac) ==
    IF dots > 1 THEN [ok |-> FALSE]
    ELSE [ok |-> TRUE,
          val |-> 100 * Num(whole)
                  + (CASE Len(frac) = 0 -> 0
                       [] Len(frac) = 1 -> 10 * Num(frac)
                       [] OTHER -> Num(SubSeq(frac, 1, 2)))]

\* parse_sms(text): the dict (exc = "none"), or the exception raised
parse_sms(t) ==
    LET m == Search(t)
    IN  IF ~m.found THEN [exc |-> "AttributeError"]
        ELSE LET g  == m.groups
                 dt == Strptime(g.date)
                 am == Float(g.whole, g.dots, g.frac)
             IN  IF ~dt.ok \/ ~am.ok THEN [exc |-> "ValueError"]
                 ELSE [exc |-> "none", card |-> g.card,
                       datetime |-> dt.val, amount |-> am.val]

-----------------------------------------------------------------------------
(* Texts                                                                   *)

VISA1234 == <<"V","I","S","A","1","2","3","4">>
MIRR5678 == <<"M","I","R","R","5","6","7","8">>

\* the longest run of spaces the texts under test put between card and date
MaxSpaces == 2

Spaces(n) == [i \in 1..n |-> " "]

\* date-time tokens with the datetime their literal fields give
D_211216 == [txt |-> <<"2","1",".","1","2",".","1","6"," ","2","2",":","1","2">>,
             val |-> <<2016, 12, 21, 22, 12>>]
D_100617 == [txt |-> <<"1","0",".","0","6",".","1","7"," ","0","9",":","3","0">>,
             val |-> <<2017, 6, 10, 9, 30>>]
D_250617 == [txt |-> <<"2","5",".","0","6",".","1","7"," ","0","0",":","0","0">>,
             val |-> <<2017, 6, 25, 0, 0>>]
D_290216 == [txt |-> <<"2","9",".","0","2",".","1","6"," ","2","3",":","5","9">>,
             val |-> <<2016, 2, 29, 23, 59>>]
D_010170 == [txt |-> <<"0","1",".","0","1",".","7","0"," ","0","0",":","0","0">>,
             val |-> <<1970, 1, 1, 0, 0>>]

\* amount tokens with their value in hundredths
A_5     == [txt |-> <<"5">>, val |-> 500]
A_12dot == [txt |-> <<"1","2",".">>, val |-> 1200]
A_1257  == [txt |-> <<"1","2",".","5","7">>, val |-> 1257]
A_7p5   == [txt |-> <<"7",".","5">>, val |-> 750]
A_0p05  == [txt |-> <<"0",".","0","5">>, val |-> 5]
A_12345p57 == [txt |-> <<"1","2","3","4","5",".","5","7">>, val |-> 1234557]

\* what follows the amount in the bank's SMS: the rouble sign and the balance
BalanceTail == <<"r"," ","B",":"," ","1","6",".","2","8","r">>

GoodPrefixes == {<< >>, <<"x"," ">>, <<"A">>}
GoodCards    == {VISA1234, MIRR5678}
GoodSpaces   == {Spaces(n) : n \in 1..MaxSpaces}
GoodDates    == {D_211216, D_100617, D_250617, D_290216, D_010170}
GoodNoise    == {<< >>, <<" ">>, <<" ","x",":"," ">>}
GoodAmounts  == {A_5, A_12dot, A_1257, A_7p5, A_0p05, A_12345p57}
GoodTails    == {<< >>, BalanceTail}

\* texts of the form card, spaces, DD.MM.YY HH:MM, noise, keyword, noise, AMOUNT
GoodParts ==
    [prefix : GoodPrefixes, card : GoodCards, sp : GoodSpaces, date : GoodDates,
     n1 : GoodNoise, kw : {KEYWORD}, n2 : {<< >>, <<" ">>}, amt : GoodAmounts,
     tail : GoodTails]

BaseParts ==
    [prefix |-> << >>, card |-> VISA1234, sp |-> Spaces(1), date |-> D_211216,
     n1 |-> <<" ">>, kw |-> KEYWORD, n2 |-> <<" ">>, amt |-> A_1257,
     tail |-> BalanceTail]

\* texts that are not of that form: one piece of BaseParts is missing or wrong
BadParts ==
    {[BaseParts EXCEPT !.card = c] :
        c \in {<< >>, <<"V","I","S","1","2","3","4">>,
               <<"v","i","s","a","1","2","3","4">>, <<"V","I","S","A","1","2","3">>}}
    \cup {[BaseParts EXCEPT !.sp = x] : x \in {<< >>, <<"\t">>}}
    \cup {[BaseParts EXCEPT !.date = [txt |-> x, val |-> << >>]] :
            x \in {<< >>,
                   <<"2","1",".","1","2",".","1","6"," ","2","2","1","2">>,
                   <<"1",".","1","2",".","1","6"," ","2","2",":","1","2">>,
                   <<"2","1",".","1","2",".","1","6">>,
                   <<"3","1",".","0","2",".","1","7"," ","1","0",":","0","0">>,
                   <<"2","1",".","1","3",".","1","6"," ","1","0",":","0","0">>,
                   <<"2","1",".","1","2",".","1","6"," ","2","4",":","0","0">>}}
    \cup {[BaseParts EXCEPT !.n1 = x] : x \in {<<" ","9"," ">>}}
    \cup {[BaseParts EXCEPT !.kw = x] :
            x \in {<< >>, <<"z","a","r","p","l","a","t","a">>,
                   <<"p","o","k","u","p","k","a">>}}
    \cup {[BaseParts EXCEPT !.amt = [txt |-> x, val |-> 0], !.tail = y] :
            x \in {<< >>, <<"1","2",".",".","5">>, <<".","5">>},
            y \in {<< >>, <<"r">>}}

\* texts with none of the pieces: the empty text and the text of test_failed_parse
JunkParts ==
    {[prefix |-> x, card |-> << >>, sp |-> << >>, date |-> [txt |-> << >>, val |-> << >>],
      n1 |-> << >>, kw |-> << >>, n2 |-> << >>, amt |-> [txt |-> << >>, val |-> 0],
      tail |-> << >>] : x \in {<< >>, <<"d","a","s","f","d","s","f">>}}

PartsSet == GoodParts \cup BadParts \cup JunkParts

Compose(p) == p.prefix \o p.card \o p.sp \o p.date.txt \o p.n1 \o p.kw
              \o p.n2 \o p.amt.txt \o p.tail

NoParts == [prefix |-> << >>]
Pending == [exc |-> "pending"]

-----------------------------------------------------------------------------
(* The ledger: the SQL statements of the retrieval functions               *)

\* SQL NULL, Python None: a value no text equals
None == <<"None">>

\* the rows of a table, each once
Rows(table) == BagToSet(table)

\* INSERT OR IGNORE into a table whose UNIQUE constraint spans all columns:
\* the row is dropped when an equal row is stored, and SQLite holds a row
\* with a NULL column equal to no row
InsertOrIgnore(table, row, hasNull) ==
    IF BagIn(row, table) /\ ~hasNull THEN table ELSE table (+) SetToBag({row})

\* DELETE FROM table WHERE ...: hit is the set of the rows the WHERE selects
DeleteRows(table, hit) ==
    [r \in Rows(table) \ hit |-> table[r]]

TxRow(chat_id, username, sms_data) ==
    [chat_id |-> chat_id, name |-> username, card |-> sms_data.card,
     date_time |-> sms_data.datetime, amount |-> sms_data.amount]

insert_transaction(d, chat_id, username, sms_data) ==
    InsertOrIgnore(d, TxRow(chat_id, username, sms_data), username = None)

\* new_transaction with the conditions of its SELECT joined by AND: whether
\* no stored row equals the tuple (a NULL name equals nothing)
new_transaction_and(d, chat_id, username, sms_data) ==
    [exc |-> "none",
     val |-> username = None \/ ~BagIn(TxRow(chat_id, username, sms_data), d)]

\* the SELECT of new_transaction separates its conditions with commas:
\* cursor.execute raises sqlite3.OperationalError (near ",": syntax error)
new_transaction(d, chat_id, username, sms_data) ==
    [exc |-> "OperationalError"]

insert_ignored_card(ic, chat_id, card) ==
    InsertOrIgnore(ic, <<chat_id, card>>, FALSE)

remove_ignored_card(ic, chat_id, card) ==
    DeleteRows(ic, {r \in Rows(ic) : r[1] = chat_id /\ r[2] = card})

\* show_ignored_cards whose SELECT has no WHERE
show_ignored_cards_anychat(ic, chat_id) == {r[2] : r \in Rows(ic)}

\* the cards of show_ignored_cards(chat_id), as a set
show_ignored_cards(ic, chat_id) ==
    {r[2] : r \in {x \in Rows(ic) : x[1] = chat_id}}

\* the recipients of to_notify(chat_id), as a set
to_notify(nt, chat_id) ==
    {r[2] : r \in {x \in Rows(nt) : x[1] = chat_id}}

user_data(d, chat_id) ==
    [r \in {x \in Rows(d) : x.chat_id = chat_id} |-> d[r]]

user_records(d, chat_id) == BagCardinality(user_data(d, chat_id))

\* the order of the stored text of two datetimes ('YYYY-MM-DD HH:MM:SS')
DtKey(dt) == (((dt[1] * 13 + dt[2]) * 32 + dt[3]) * 24 + dt[4]) * 60 + dt[5]

RECURSIVE SumAmount(_)
\* SUM(amount) over a bag of rows; 0 stands for NULL as well: wage_calc
\* turns both into 0
SumAmount(b) ==
    IF Rows(b) = {} THEN 0
    ELSE LET r == CHOOSE x \in Rows(b) : TRUE
         IN  r.amount * b[r] + SumAmount([x \in Rows(b) \ {r} |-> b[x]])

\* wage_calc whose SELECT lacks chat_id=:id
wage_calc_anychat(d, chat_id, start_date, end_date) ==
    LET hit == {x \in Rows(d) :
                    /\ DtKey(start_date) <= DtKey(x.date_time)
                    /\ DtKey(x.date_time) <= DtKey(end_date)}
    IN  SumAmount([r \in hit |-> d[r]])

\* SELECT SUM(amount) ... WHERE chat_id=:id AND date_time BETWEEN :sd and :ed
wage_calc(d, chat_id, start_date, end_date) ==
    LET hit == {x \in Rows(d) :
                    /\ x.chat_id = chat_id
                    /\ DtKey(start_date) <= DtKey(x.date_time)
                    /\ DtKey(x.date_time) <= DtKey(end_date)}
    IN  SumAmount([r \in hit |-> d[r]])

purge_all(d) == EmptyBag

\* purge_user whose DELETE has no WHERE
purge_user_nowhere(d, user) == EmptyBag

purge_user(d, user) ==
    DeleteRows(d, {r \in Rows(d) : r.chat_id = user})

\* SELECT chat_id FROM data WHERE name=:name LIMIT 1: the chat ids among
\* which SQLite picks one; with none, fetchone() is None and None[0] raises
\* TypeError, which the except IndexError clause lets through
chatid_from_name(d, user) == {r.chat_id : r \in {x \in Rows(d) : x.name = user}}

-----------------------------------------------------------------------------
(* Configuration and the updates Telegram delivers                         *)

\* config.ini: the day of the month that separates two pay periods
separator_date == 25

\* config.ini: the user ids of the admins
admin_list == {1}

\* the users that write to the bot; update.effective_user.id
Users == {1, 2}

ALICE == <<"a","l","i","c","e">>

\* update.message.from_user['username']; user 2 has set no username
Username(u) == IF u = 1 THEN ALICE ELSE None

\* update.message.chat_id: a private chat has the id of its user, chat 3 is
\* a group both users are members of
Chats == {1, 2, 3}

Members(c) == IF c = 3 THEN Users ELSE {c}

\* who sends an update, and in which chat: <<user id, chat id>>
Senders == {s \in Users \X Chats : s[1] \in Members(s[2])}

PrivateSenders == {s \in Senders : s[1] = s[2]}

\* datetime.datetime.now() at the time of an update
Nows == {<<2017, 6, 10, 12, 0>>, <<2017, 6, 30, 12, 0>>, <<2017, 1, 10, 12, 0>>,
         <<2017, 1, 30, 12, 0>>}

\* the messages the users send as SMS text and as lines of CSV files
SMS_IN      == Compose([BaseParts EXCEPT !.date = D_100617])
SMS_EDGE    == Compose([BaseParts EXCEPT !.card = MIRR5678, !.date = D_250617,
                                         !.amt = A_5])
SMS_NOKEY   == Compose([BaseParts EXCEPT !.kw = <<"p","o","k","u","p","k","a">>])
SMS_BADDATE == Compose([BaseParts EXCEPT !.date =
                 [txt |-> <<"3","1",".","0","2",".","1","7"," ","1","0",":","0","0">>,
                  val |-> << >>]])

SmsTexts == {SMS_IN, SMS_EDGE, SMS_NOKEY, SMS_BADDATE}

\* a CSV line: the fields an exporter put before the text, then the text
CsvLine(t) == <<"7", ",", "x", ",">> \o t

RECURSIVE LastField(_)
\* line.decode('UTF-8').split(',')[-1]
LastField(line) ==
    IF \E i \in 1..Len(line) : line[i] = ","
    THEN LastField(SubSeq(line, (CHOOSE i \in 1..Len(line) : line[i] = ",") + 1,
                          Len(line)))
    ELSE line

\* the documents the users upload
Files ==
    {[csv |-> FALSE, lines |-> <<CsvLine(SMS_IN)>>],
     [csv |-> TRUE, lines |-> << >>],
     [csv |-> TRUE, lines |-> <<CsvLine(SMS_IN)>>],
     [csv |-> TRUE, lines |-> <<SMS_EDGE>>],
     [csv |-> TRUE, lines |-> <<CsvLine(SMS_NOKEY), CsvLine(SMS_IN)>>],
     [csv |-> TRUE, lines |-> <<CsvLine(SMS_IN), SMS_EDGE>>],
     [csv |-> TRUE, lines |-> <<SMS_EDGE, CsvLine(SMS_BADDATE), CsvLine(SMS_IN)>>]}

\* parse_sms on the texts the handlers are given
Parsed == [t \in SmsTexts |-> parse_sms(t)]

\* a message of bot.send_message(chat_id=to, text=...)
Msg(to, txt) == [to |-> to, text |-> txt]

\* a message whose text is formatted from a value
MsgOf(to, txt, value) == [to |-> to, text |-> txt, arg |-> value]

-----------------------------------------------------------------------------
(* Handlers.  Each gives the effect of one call: the tables after it, the  *)
(* messages it sent, the wage_calc calls it made and the exception that    *)
(* ended it ("none" when it returned).  A value a handler computes once   *)
(* and uses several times is bound as x \in {value}.                       *)

\* a handler that changes nothing and sends nothing
Same ==
    [data |-> data, ignored_cards |-> ignored_cards, notified |-> notified,
     keyboards |-> keyboards, out |-> << >>, err |-> "none", queries |-> << >>]

Say(msgs) == [Same EXCEPT !.out = msgs]

\* @restricted: only the users of admin_list get to the handler
restricted(user_id, chat_id, eff) ==
    IF user_id \notin admin_list
    THEN Say(<<Msg(chat_id, "You don't have access to this command.")>>)
    ELSE eff

\* datetime.datetime(year, month, day); not ok is ValueError
Datetime(y, m, d) ==
    IF ValidDateTime(y, m, d, 0, 0)
    THEN [ok |-> TRUE, val |-> <<y, m, d, 0, 0>>]
    ELSE [ok |-> FALSE]

\* one wage_calc call as recorded in queries
Query(d, user, sd, ed) ==
    [user |-> user, start |-> sd, end |-> ed, sum |-> wage_calc(d, user, sd, ed)]

RECURSIVE SetToSeq(_)
SetToSeq(S) ==
    IF S = {} THEN << >>
    ELSE LET x == CHOOSE y \in S : TRUE IN <<x>> \o SetToSeq(S \ {x})

\* month = now.month if now.day > separator_date else now.month - 1
PeriodMonth(now) == IF now[3] > separator_date THEN now[2] ELSE now[2] - 1

\* the running total sms reports after an insert: lines 311-326
sms_total(d, chat_id, sms_dt, now) ==
    LET today == <<sms_dt[1], sms_dt[2], sms_dt[3]>> = <<now[1], now[2], now[3]>>
        base  == IF today THEN now ELSE sms_dt
        month == PeriodMonth(base)
        sd    == Datetime(base[1], month - 1, separator_date)
        ed    == Datetime(base[1], month, separator_date)
    IN  IF ~sd.ok \/ ~ed.ok
        THEN [out |-> << >>, err |-> "ValueError", queries |-> << >>]
        ELSE LET q == Query(d, chat_id, sd.val, ed.val)
             IN  [out |-> <<MsgOf(chat_id,
                                  IF today THEN "Your last month's wage is {} so far"
                                  ELSE "Your wage in that month is {} so far",
                                  q.sum)>>,
                  err |-> "none", queries |-> <<q>>]

\* sms(bot, update) from line 291 on, the text parsed
sms_parsed(user_id, chat_id, txt, now, sms_p) ==
    LET username == Username(user_id)
        warn == IF sms_p.card \in show_ignored_cards(ignored_cards, chat_id)
                THEN <<Msg(chat_id,
                   "You are trying to add a transaction from ignored card number.")>>
                ELSE << >>
        new  == new_transaction(data, chat_id, username, sms_p)
    IN  IF new.exc # "none" THEN [Same EXCEPT !.out = warn, !.err = new.exc]
        ELSE IF ~new.val
        THEN Say(warn \o <<Msg(chat_id, "Record of this transaction already exists.")>>)
        ELSE
        LET d2    == insert_transaction(data, chat_id, username, sms_p)
            to    == SetToSeq(to_notify(notified, chat_id))
            notes == [i \in 1..Len(to) |->
                        MsgOf(to[i], "{} just added the following message: {}",
                              <<username, txt>>)]
        IN  CHOOSE e \in
                {[Same EXCEPT
                    !.data = d2,
                    !.out = warn
                            \o <<Msg(chat_id, "Transaction added successfully!")>>
                            \o notes \o total.out,
                    !.err = total.err,
                    !.queries = total.queries] :
                 total \in {sms_total(d2, chat_id, sms_p.datetime, now)}} : TRUE

\* sms(bot, update)
sms(user_id, chat_id, txt, now) ==
    CHOOSE e \in
        {IF sms_p.exc = "AttributeError"
         THEN Say(<<Msg(chat_id, "Unable to parse. Please, send valid SMS!")>>)
         ELSE IF sms_p.exc # "none" THEN [Same EXCEPT !.err = sms_p.exc]
         ELSE sms_parsed(user_id, chat_id, txt, now, sms_p) :
         sms_p \in {Parsed[txt]}} : TRUE

\* one pass of the for loop of csv_parse, over one line: the table, the
\* counters i, j, k and the exception that ended the pass
\* one pass of the loop where the inserts of the file share one transaction,
\* which the exception that ends the loop rolls back
csv_line_rollback(d, chat_id, username, line, c, parsed) ==
    IF parsed.exc = "AttributeError"
    THEN [data |-> d, c |-> [c EXCEPT !.j = @ + 1], err |-> "none"]
    ELSE IF parsed.exc # "none"
    THEN [data |-> data, c |-> [c EXCEPT !.j = @ + 1], err |-> parsed.exc]
    ELSE IF parsed.card \notin show_ignored_cards(ignored_cards, chat_id)
    THEN [data |-> insert_transaction(d, chat_id, username, parsed),
          c |-> [c EXCEPT !.i = @ + 1, !.j = @ + 1], err |-> "none"]
    ELSE [data |-> d, c |-> [c EXCEPT !.i = @ + 1, !.j = @ + 1, !.k = @ + 1],
          err |-> "none"]

csv_line(d, chat_id, username, line, c, parsed) ==
    IF parsed.exc = "AttributeError"
    THEN [data |-> d, c |-> [c EXCEPT !.j = @ + 1], err |-> "none"]
    ELSE IF parsed.exc # "none"
    THEN [data |-> d, c |-> [c EXCEPT !.j = @ + 1], err |-> parsed.exc]
    ELSE IF parsed.card \notin show_ignored_cards(ignored_cards, chat_id)
    THEN [data |-> insert_transaction(d, chat_id, username, parsed),
          c |-> [c EXCEPT !.i = @ + 1, !.j = @ + 1], err |-> "none"]
    ELSE [data |-> d, c |-> [c EXCEPT !.i = @ + 1, !.j = @ + 1, !.k = @ + 1],
          err |-> "none"]

RECURSIVE csv_loop(_, _, _, _, _)
\* the for loop of csv_parse from line n on: the table and the counters at
\* its end, and the exception that ended it
csv_loop(st, chat_id, username, lines, n) ==
    IF n > Len(lines) \/ st.err # "none" THEN st
    ELSE CHOOSE e \in
            {csv_loop(st2, chat_id, username, lines, n + 1) :
             st2 \in {csv_line(st.data, chat_id, username, lines[n], st.c,
                               Parsed[LastField(lines[n])])}} : TRUE

\* csv_parse(bot, update)
csv_parse(user_id, chat_id, file) ==
    IF ~file.csv THEN Say(<<Msg(chat_id, "Only CSV is allowed!")>>)
    ELSE
    LET head == <<Msg(chat_id, "CSV file found, commencing download"),
                  Msg(chat_id, "Download complete, commencing parsing")>>
    IN  CHOOSE e \in
            {[Same EXCEPT
                !.data = run.data,
                !.out = IF run.err # "none" THEN head
                        ELSE head \o <<MsgOf(chat_id,
                            "{j} lines total, {i} of them were parsed and added, {k} were ignored.",
                            run.c)>>,
                !.err = run.err] :
             run \in {csv_loop([data |-> data, c |-> [i |-> 0, j |-> 0, k |-> 0],
                                err |-> "none"],
                               chat_id, Username(user_id), file.lines, 1)}} : TRUE

\* int(text) succeeds: the tokens of the model are runs of digits or letters
IsInt(tok) == Len(tok) > 0 /\ \A i \in 1..Len(tok) : IsDigit(tok[i])

\* is_month without the lower bound
is_month_nolower(tok) == IsInt(tok) /\ Num(tok) < 32

is_month(tok) == IsInt(tok) /\ 0 < Num(tok) /\ Num(tok) < 32

is_year(tok) == IsInt(tok) /\ 1999 < Num(tok) /\ Num(tok) < 2051

\* the window of an explicit month: lines 453-458 and 463-468
month_window(year, month) ==
    IF month = 12
    THEN <<Datetime(year, month, separator_date), Datetime(year + 1, 1, separator_date)>>
    ELSE <<Datetime(year, month - 1, separator_date),
           Datetime(year, month, separator_date)>>

\* the window without arguments: lines 491-499
current_window(now) ==
    LET year  == now[1]
        month == PeriodMonth(now)
    IN  IF month = 1
        THEN <<Datetime(year - 1, 12, separator_date),
               Datetime(year, month, separator_date)>>
        ELSE <<Datetime(year, month - 1, separator_date),
               Datetime(year, month, separator_date)>>

\* the windows of the wage by month of a year, then that of the total:
\* lines 474-486
year_windows(year) ==
    [m \in 1..11 |-> <<Datetime(year, m, separator_date),
                       Datetime(year, m + 1, separator_date)>>]
    \o <<<<Datetime(year, 12, separator_date), Datetime(year + 1, 1, separator_date)>>,
         <<Datetime(year, 1, separator_date), Datetime(year + 1, 1, separator_date)>>>>

\* wage_template(bot, update, args, user)
wage_template(chat_id, args, user0, now) ==
    LET user == IF user0 = 0 THEN chat_id ELSE user0
        accepted ==
            \/ Len(args) = 2 /\ is_month(args[1]) /\ is_year(args[2])
            \/ Len(args) = 1 /\ (is_month(args[1]) \/ is_year(args[1]))
            \/ Len(args) = 0
    IN  IF ~accepted
        THEN Say(<<Msg(chat_id, "Incorrect format. Should be MM YYYY, both are optional.")>>)
        ELSE IF Len(args) = 1 /\ ~is_month(args[1])
        THEN
        LET ws == year_windows(Num(args[1]))
            qs == [i \in 1..13 |-> Query(data, user, ws[i][1].val, ws[i][2].val)]
        IN  IF \E i \in 1..13 : ~ws[i][1].ok \/ ~ws[i][2].ok
            THEN [Same EXCEPT !.err = "ValueError"]
            ELSE [Same EXCEPT
                    !.out = <<MsgOf(chat_id, "{acc}", [i \in 1..12 |-> qs[i].sum \div 100]),
                              MsgOf(chat_id, "Wage in that period was {}", qs[13].sum)>>,
                    !.queries = qs]
        ELSE
        LET w == CASE Len(args) = 2 -> month_window(Num(args[2]), Num(args[1]))
                   [] Len(args) = 1 -> month_window(now[1], Num(args[1]))
                   [] OTHER -> current_window(now)
        IN  IF ~w[1].ok \/ ~w[2].ok THEN [Same EXCEPT !.err = "ValueError"]
            ELSE LET q == Query(data, user, w[1].val, w[2].val)
                 IN  [Same EXCEPT
                        !.out = <<MsgOf(chat_id, "Wage in that period was {}", q.sum)>>,
                        !.queries = <<q>>]

\* wage_request(bot, update, args)
wage_request(chat_id, args, now) == wage_template(chat_id, args, 0, now)

\* wage_admingrequest(bot, update, args); picked is the chat id the SELECT
\* of chatid_from_name gave, 0 when it gave no row
wage_admingrequest(user_id, chat_id, args, now, picked) ==
    restricted(user_id, chat_id,
        IF Len(args) = 0 THEN [Same EXCEPT !.err = "IndexError"]
        ELSE IF picked = 0 THEN [Same EXCEPT !.err = "TypeError"]
        ELSE wage_template(chat_id, Tail(args), picked, now))

\* valid_card(text)
valid_card(tok) == Len(tok) = 8 /\ CardAt(tok, 1)

\* modify_ignore(bot, update, args)
modify_ignore(chat_id, args) ==
    LET shown == show_ignored_cards(ignored_cards, chat_id)
    IN  IF Len(args) # 2 \/ ~valid_card(args[2])
        THEN IF shown # {}
             THEN Say(<<Msg(chat_id, "Incorrect format"),
                        Msg(chat_id, "Ignored cards are:"),
                        MsgOf(chat_id, "{}", shown)>>)
             ELSE Say(<<Msg(chat_id, "Incorrect format"),
                        Msg(chat_id, "No ignored cards for this user in database.")>>)
        ELSE IF args[1] = <<"a","d","d">>
        THEN IF args[2] \in shown
             THEN Say(<<MsgOf(chat_id, "Card {} already in the list.", args[2])>>)
             ELSE [Same EXCEPT
                     !.out = <<MsgOf(chat_id, "Adding {} to the list of ignored cards.",
                                     args[2])>>,
                     !.ignored_cards = insert_ignored_card(ignored_cards, chat_id, args[2])]
        ELSE IF args[1] = <<"r","e","m","o","v","e">>
        THEN IF args[2] \notin shown
             THEN Say(<<MsgOf(chat_id, "Card {} not in the list.", args[2])>>)
             ELSE [Same EXCEPT
                     !.ignored_cards = remove_ignored_card(ignored_cards, chat_id, args[2]),
                     !.out = <<MsgOf(chat_id, "Removed {} from the list of ignored cards.",
                                     args[2])>>]
        ELSE Say(<<Msg(chat_id, "Incorrect format")>>)

\* insert_notify(chat_id, notified)
insert_notify(nt, chat_id, n) == InsertOrIgnore(nt, <<chat_id, n>>, FALSE)

\* the DELETE of remove_notify names the parameter :card and is given
\* 'notified': cursor.execute raises sqlite3.ProgrammingError
remove_notify(nt, chat_id, n) == [exc |-> "ProgrammingError"]

\* args[1] in to_notify(chat_id): a str among the ints of the notify column
arg_in_to_notify(tok, recipients) == FALSE

\* name_from_chatid(chatid) can return: the first character of a stored name
\* of that chat; TypeError when no row is stored or the stored name is NULL
name_from_chatid(d, chatid) ==
    {IF r.name = None THEN None ELSE <<r.name[1]>> :
        r \in {x \in Rows(d) : x.chat_id = chatid}}

\* modify_notify(bot, update, args); picked as in wage_admingrequest, names
\* what name_from_chatid gave for each recipient (None: it raised)
modify_notify(chat_id, args, picked, names) ==
    LET listed == to_notify(notified, chat_id)
    IN  IF Len(args) # 2
        THEN IF listed # {}
             THEN IF \E id \in listed : names[id] = None
                  THEN [Same EXCEPT
                          !.out = <<Msg(chat_id, "Incorrect format"),
                                    Msg(chat_id, "chat_id's of the notified are:"),
                                    MsgOf(chat_id, "{}", listed)>>,
                          !.err = "TypeError"]
                  ELSE Say(<<Msg(chat_id, "Incorrect format"),
                             Msg(chat_id, "chat_id's of the notified are:"),
                             MsgOf(chat_id, "{}", listed),
                             Msg(chat_id, "Usernames are:"),
                             MsgOf(chat_id, "{}", names)>>)
             ELSE Say(<<Msg(chat_id, "Incorrect format"),
                        Msg(chat_id, "Notify list is empty for this user.")>>)
        ELSE IF args[1] = <<"a","d","d">>
        THEN LET adding == <<MsgOf(chat_id, "Adding {} to the list of notified.", args[2])>>
             IN  IF IsInt(args[2])
                 THEN [Same EXCEPT
                         !.out = adding,
                         !.notified = insert_notify(notified, chat_id, Num(args[2]))]
                 ELSE IF picked = 0
                 THEN [Same EXCEPT !.out = adding, !.err = "TypeError"]
                 ELSE [Same EXCEPT
                         !.out = adding,
                         !.notified = insert_notify(notified, chat_id, picked)]
        ELSE IF args[1] = <<"r","e","m","o","v","e">>
        THEN IF ~arg_in_to_notify(args[2], listed)
             THEN Say(<<MsgOf(chat_id, "User {} not in the list of notified", args[2])>>)
             ELSE
             LET removing == <<MsgOf(chat_id, "Removing {} from the list of notified.",
                                     args[2])>>
                 gone == remove_notify(notified, chat_id,
                                       IF IsInt(args[2]) THEN Num(args[2]) ELSE picked)
             IN  IF ~IsInt(args[2]) /\ picked = 0
                 THEN [Same EXCEPT !.out = removing, !.err = "TypeError"]
                 ELSE IF gone.exc # "none"
                 THEN [Same EXCEPT !.out = removing, !.err = gone.exc]
                 ELSE [Same EXCEPT
                         !.out = removing \o <<Msg(chat_id, "Successfuly removed {args[1]}!")>>,
                         !.notified = gone.val]
        ELSE Say(<<Msg(chat_id, "Incorrect format")>>)

\* start(bot, update)
start(chat_id) ==
    Say(<<Msg(chat_id, "This bot parses and stores info about your monthly earnings!"),
          Msg(chat_id, "Please, send SMS from the bank")>>)

\* form_csv(bot, update)
form_csv(chat_id) ==
    Say(<<Msg(chat_id, "Preparing CSV file..."),
          Msg(chat_id, "Data gathered..."),
          Msg(chat_id, "Data encoded..."),
          MsgOf(chat_id, "document", user_data(data, chat_id))>>)

\* user_info(bot, update); main() registers no handler for it
user_info(chat_id) ==
    Say(<<MsgOf(chat_id, "Your chat_id is {}, we have {} records concerning you",
                <<chat_id, user_records(data, chat_id)>>)>>)

\* CommandHandler('userdata', user_data): user_data takes one argument and
\* the dispatcher calls it with bot and update
userdata(chat_id) == [Same EXCEPT !.err = "TypeError"]

\* unknown(bot, update)
unknown(chat_id) == Say(<<Msg(chat_id, "Unknown command.")>>)

\* purge_db that purges at once, without the prompt
purge_db_at_once(user_id, chat_id) ==
    restricted(user_id, chat_id,
        [Same EXCEPT
            !.out = <<Msg(chat_id, "Well, you asked for it, purging database..."),
                      Msg(chat_id, "DONE!")>>,
            !.data = purge_all(data)])

\* purge_db(bot, update): the prompt with the buttons DROPDB and NODROP
purge_db(user_id, chat_id) ==
    restricted(user_id, chat_id,
        [Same EXCEPT
            !.out = <<Msg(chat_id, "Are you sure you want to purge an entire database?")>>,
            !.keyboards = @ \cup {<<chat_id, "DROPDB">>, <<chat_id, "NODROP">>}])

\* purgeuser(bot, update): the prompt with the buttons DROPUSER and NODROP
purgeuser(chat_id) ==
    [Same EXCEPT
        !.out = <<Msg(chat_id, "Are you sure you want to purge all your records?")>>,
        !.keyboards = @ \cup {<<chat_id, "DROPUSER">>, <<chat_id, "NODROP">>}]

\* dump_db(bot, update)
dump_db(user_id, chat_id) ==
    restricted(user_id, chat_id,
        Say(<<MsgOf(chat_id, "document", [data |-> data,
                                          ignored_cards |-> ignored_cards,
                                          notified |-> notified])>>))

\* purgedb_commence(bot, update)
purgedb_commence(chat_id, token) ==
    IF token = "DROPDB"
    THEN [Same EXCEPT
            !.out = <<Msg(chat_id, "Well, you asked for it, purging database..."),
                      Msg(chat_id, "DONE!")>>,
            !.data = purge_all(data)]
    ELSE Same

\* purgeuser_commence(bot, update)
purgeuser_commence(chat_id, token) ==
    IF token = "DROPUSER"
    THEN [Same EXCEPT
            !.out = <<Msg(chat_id, "Purging your info from the database..."),
                      Msg(chat_id, "DONE!")>>,
            !.data = purge_user(data, chat_id)]
    ELSE Same

\* cancel(bot, update)
cancel(chat_id) == Say(<<Msg(chat_id, "Action cancelled!")>>)

\* the CallbackQueryHandlers in the order main() adds them: pattern
\* 'DROPUSER', pattern 'DROPDB', then cancel for every other press
callback_query(chat_id, token) ==
    CASE token = "DROPUSER" -> purgeuser_commence(chat_id, token)
      [] token = "DROPDB" -> purgedb_commence(chat_id, token)
      [] OTHER -> cancel(chat_id)

-----------------------------------------------------------------------------
(* Actions: the dispatcher hands one update to its handler                 *)

\* the most rows the data table holds in the model
MaxRows == 2

T00   == <<"0","0">>
T01   == <<"0","1">>
T06   == <<"0","6">>
T13   == <<"1","3">>
T12   == <<"1","2">>
T2017 == <<"2","0","1","7">>
ADD    == <<"a","d","d">>
REMOVE == <<"r","e","m","o","v","e">>

\* the arguments given to /wage and, after a name, to /wagedb
WageArgs ==
    {<< >>, <<T06>>, <<T2017>>, <<T12, T2017>>, <<<<"x">>>>,
     <<T01>>, <<T13>>, <<T01, T2017>>, <<T2017, T06>>, <<T06, T2017, T06>>, <<T00>>}

\* the arguments given to /modignore
IgnoreArgs ==
    {<<ADD, VISA1234>>, <<ADD, MIRR5678>>, <<REMOVE, VISA1234>>, <<REMOVE, MIRR5678>>,
     << >>, <<ADD, <<"x">>>>, <<<<"d","r","o","p">>, VISA1234>>}

\* the arguments given to /modnotify
NotifyArgs ==
    {<<ADD, <<"1">>>>, <<ADD, ALICE>>, <<ADD, <<"b","o","b">>>>, <<REMOVE, <<"1">>>>,
     <<REMOVE, ALICE>>, << >>}

\* the arguments given to /wagedb
WagedbArgs == {<< >>, <<ALICE>>, <<<<"b","o","b">>>>, <<ALICE, T06>>}

\* the callback_data of the buttons
Tokens == {"DROPDB", "DROPUSER", "NODROP"}

\* what the SELECT of chatid_from_name(name) can give; 0 for no row
PickChat(name) ==
    IF chatid_from_name(data, name) = {} THEN {0} ELSE chatid_from_name(data, name)

\* what name_from_chatid can give for each of the recipients
PickNames(listed) ==
    {nm \in [listed -> {None} \cup UNION {name_from_chatid(data, id) : id \in listed}] :
        \A id \in listed :
            nm[id] \in (IF name_from_chatid(data, id) = {} THEN {None}
                        ELSE name_from_chatid(data, id))}

\* the handler's effect becomes the next state
Effect(o, eff) ==
    \E e \in {eff} :
    /\ BagCardinality(e.data) <= MaxRows
    /\ op' = o
    /\ data' = e.data
    /\ ignored_cards' = e.ignored_cards
    /\ notified' = e.notified
    /\ keyboards' = e.keyboards
    /\ out' = e.out
    /\ err' = e.err
    /\ queries' = e.queries
    /\ UNCHANGED <<parts, text, res>>

\* the same, where no history of the prompts is kept
Handle(o, eff) == Effect(o, eff) /\ UNCHANGED prompts

Update(name, s) == [name |-> name, user |-> s[1], chat |-> s[2]]

OnStart(S) ==
    \E s \in S : Handle(Update("start", s), start(s[2]))

OnSms(S, T, N) ==
    \E s \in S, t \in T, now \in N :
        Handle([name |-> "sms", user |-> s[1], chat |-> s[2], text |-> t, now |-> now],
               sms(s[1], s[2], t, now))

OnDocument(S, F) ==
    \E s \in S, f \in F :
        Handle([name |-> "csv_parse", user |-> s[1], chat |-> s[2], file |-> f],
               csv_parse(s[1], s[2], f))

OnFormCsv(S) ==
    \E s \in S : Handle(Update("form_csv", s), form_csv(s[2]))

OnUserdata(S) ==
    \E s \in S : Handle(Update("userdata", s), userdata(s[2]))

OnWage(S, A, N) ==
    \E s \in S, args \in A, now \in N :
        Handle([name |-> "wage", user |-> s[1], chat |-> s[2], args |-> args, now |-> now],
               wage_request(s[2], args, now))

OnWagedb(S, A, N) ==
    \E s \in S, args \in A, now \in N :
        \E picked \in PickChat(IF Len(args) = 0 THEN None ELSE args[1]) :
            Handle([name |-> "wagedb", user |-> s[1], chat |-> s[2], args |-> args,
                    now |-> now],
                   wage_admingrequest(s[1], s[2], args, now, picked))

OnModignore(S, A) ==
    \E s \in S, args \in A :
        Handle([name |-> "modignore", user |-> s[1], chat |-> s[2], args |-> args],
               modify_ignore(s[2], args))

OnModnotify(S, A) ==
    \E s \in S, args \in A :
        \E picked \in PickChat(IF Len(args) = 2 THEN args[2] ELSE None),
           names \in PickNames(to_notify(notified, s[2])) :
            Handle([name |-> "modnotify", user |-> s[1], chat |-> s[2], args |-> args],
                   modify_notify(s[2], args, picked, names))

OnPurgedb(S) ==
    \E s \in S : Handle(Update("purgedb", s), purge_db(s[1], s[2]))

OnPurgeuser(S) ==
    \E s \in S : Handle(Update("purgeuser", s), purgeuser(s[2]))

OnDumpdb(S) ==
    \E s \in S : Handle(Update("dumpdb", s), dump_db(s[1], s[2]))

\* a member of the chat presses a button the chat shows
OnButton(S) ==
    \E s \in S, token \in Tokens :
        /\ <<s[2], token>> \in keyboards
        /\ Handle([name |-> "button", user |-> s[1], chat |-> s[2], token |-> token],
                  callback_query(s[2], token))

OnUnknown(S) ==
    \E s \in S : Handle(Update("unknown", s), unknown(s[2]))

\* /purgedb, remembering the prompt it shows
AskPurgedb(S) ==
    \E s \in S :
        /\ Effect(Update("purgedb", s), purge_db(s[1], s[2]))
        /\ prompts' = IF s[1] \in admin_list
                      THEN prompts \cup {<<s[1], s[2], "DROPDB">>}
                      ELSE prompts

\* /purgeuser, remembering the prompt it shows
AskPurgeuser(S) ==
    \E s \in S :
        /\ Effect(Update("purgeuser", s), purgeuser(s[2]))
        /\ prompts' = prompts \cup {<<s[1], s[2], "DROPUSER">>}

\* the prompts left after a press: "No, wait!" under one of the presser's
\* prompts in the chat cancels that prompt; a confirmation leaves them
AfterPress(user_id, chat_id, token) ==
    LET mine == {p \in prompts : p[1] = user_id /\ p[2] = chat_id}
    IN  IF token = "NODROP" /\ mine # {}
        THEN {prompts \ {p} : p \in mine}
        ELSE {prompts}

\* a press of a button the chat shows, remembering what it cancels
PressButton(S) ==
    \E s \in S, token \in Tokens :
        /\ <<s[2], token>> \in keyboards
        /\ Effect([name |-> "button", user |-> s[1], chat |-> s[2], token |-> token],
                  callback_query(s[2], token))
        /\ prompts' \in AfterPress(s[1], s[2], token)

-----------------------------------------------------------------------------
(* The state after start-up: datatable_init() on a fresh data.db           *)

Boot ==
    /\ data = EmptyBag
    /\ ignored_cards = EmptyBag
    /\ notified = EmptyBag
    /\ keyboards = {}
    /\ op = [name |-> "boot"]
    /\ out = << >>
    /\ err = "none"
    /\ queries = << >>
    /\ prompts = {}

Init ==
    /\ Boot
    /\ parts = NoParts
    /\ text = << >>
    /\ res = Pending

\* every handler main() registers, for every sender
Next ==
    \/ OnStart(Senders)
    \/ OnSms(Senders, SmsTexts, Nows)
    \/ OnDocument(Senders, Files)
    \/ OnFormCsv(Senders)
    \/ OnUserdata(Senders)
    \/ OnWage(Senders, WageArgs, Nows)
    \/ OnWagedb(Senders, WagedbArgs, Nows)
    \/ OnModignore(Senders, IgnoreArgs)
    \/ OnModnotify(Senders, NotifyArgs)
    \/ OnPurgedb(Senders)
    \/ OnPurgeuser(Senders)
    \/ OnDumpdb(Senders)
    \/ OnButton(Senders)
    \/ OnUnknown(Senders)

Spec == Init /\ [][Next]_vars

\* one moment of the clock
Noon == {<<2017, 6, 30, 12, 0>>}

\* taking transactions under the ignore lists, in the private chats
NextLedger ==
    \/ OnSms(PrivateSenders, SmsTexts, Noon)
    \/ OnDocument(PrivateSenders, Files)
    \/ OnModignore(PrivateSenders, IgnoreArgs)

SpecLedger == Init /\ [][NextLedger]_vars

\* taking transactions under the notify lists, in the private chats
NextNotify ==
    \/ OnSms(PrivateSenders, SmsTexts, Nows)
    \/ OnDocument(PrivateSenders, Files)
    \/ OnModnotify(PrivateSenders, NotifyArgs)

SpecNotify == Init /\ [][NextNotify]_vars

\* wage queries over the transactions taken, in the private chats
NextWage ==
    \/ OnDocument(PrivateSenders, Files)
    \/ OnWage(PrivateSenders, WageArgs, Nows)

SpecWage == Init /\ [][NextWage]_vars

\* what the users send in: texts, documents and wage queries, in the
\* private chats
NextRequests ==
    \/ OnSms(PrivateSenders, SmsTexts, Noon)
    \/ OnDocument(PrivateSenders, Files)
    \/ OnWage(PrivateSenders, WageArgs, Nows)

SpecRequests == Init /\ [][NextRequests]_vars

\* the commands that look a user up by name or by chat id, over the
\* transactions taken, in the private chats
NextLookup ==
    \/ OnDocument(PrivateSenders, Files)
    \/ OnModnotify(PrivateSenders, NotifyArgs)
    \/ OnWagedb(PrivateSenders, WagedbArgs, Noon)

SpecLookup == Init /\ [][NextLookup]_vars

\* the documents, wage queries and list changes sent while rows are kept
KeepFiles      == {f \in Files : f.csv /\ f.lines = <<CsvLine(SMS_IN)>>}
KeepWageArgs   == {<< >>, <<T2017>>}
KeepIgnoreArgs == {<<ADD, VISA1234>>, <<REMOVE, VISA1234>>}
KeepNotifyArgs == {<<ADD, <<"1">>>>, <<REMOVE, <<"1">>>>}

\* the handlers that take transactions, query them, change the lists and
\* purge, in the private chats
NextKeep ==
    \/ OnSms(PrivateSenders, {SMS_IN}, Noon)
    \/ OnDocument(PrivateSenders, KeepFiles)
    \/ OnWage(PrivateSenders, KeepWageArgs, Noon)
    \/ OnModignore(PrivateSenders, KeepIgnoreArgs)
    \/ OnModnotify(PrivateSenders, KeepNotifyArgs)
    \/ OnPurgedb(PrivateSenders)
    \/ OnPurgeuser(PrivateSenders)
    \/ OnButton(PrivateSenders)

SpecKeep == Init /\ [][NextKeep]_vars

\* the documents uploaded while the purges are exercised: one line, as CSV or not
PurgeFiles == {f \in Files : f.lines = <<CsvLine(SMS_IN)>>}

\* filling and purging the data table and the admin commands, in every chat
NextPurge ==
    \/ OnSms(Senders, {SMS_IN, SMS_NOKEY}, Noon)
    \/ OnDocument(Senders, PurgeFiles)
    \/ OnPurgedb(Senders)
    \/ OnPurgeuser(Senders)
    \/ OnDumpdb(Senders)
    \/ OnWagedb(Senders, WagedbArgs, Noon)
    \/ OnButton(Senders)

SpecPurge == Init /\ [][NextPurge]_vars

\* asking for a purge, cancelling and confirming it, in the private chats
NextConfirm ==
    \/ OnDocument(PrivateSenders, KeepFiles)
    \/ AskPurgedb(PrivateSenders)
    \/ AskPurgeuser(PrivateSenders)
    \/ PressButton(PrivateSenders)

SpecConfirm == Init /\ [][NextConfirm]_vars

-----------------------------------------------------------------------------
(* SpecParse: parse_sms applied to each text under test                    *)

ParseInit ==
    /\ Boot
    /\ parts \in PartsSet
    /\ text = Compose(parts)
    /\ res = Pending

ParseStep ==
    /\ res = Pending
    /\ res' = parse_sms(text)
    /\ UNCHANGED <<data, ignored_cards, notified, keyboards, op, out, err, queries,
                   parts, text, prompts>>

SpecParse == ParseInit /\ [][ParseStep]_vars

-----------------------------------------------------------------------------
(* Properties of parse_sms (SpecParse)                                     *)

\* C9: for every text of the form card (4 uppercase letters, 4 digits),
\* spaces, DD.MM.YY HH:MM, non-digit noise, the keyword, non-digit noise,
\* AMOUNT, parse_sms returns exactly that card, the date-time of the literal
\* date and time fields and the amount AMOUNT.
C9_WellFormedTextParsesExactly ==
    (res # Pending /\ parts \in GoodParts) =>
        res = [exc |-> "none", card |-> parts.card, datetime |-> parts.date.val,
               amount |-> parts.amt.val]

\* the text of test_proper_parse has been parsed
C9_Witness ==
    /\ res # Pending
    /\ res.exc = "none"
    /\ parts \in GoodParts
    /\ parts.prefix = << >>
    /\ parts.card = VISA1234
    /\ parts.date = D_211216
    /\ parts.amt = A_12345p57
    /\ parts.tail = BalanceTail

LacksKeyword(t) == ~\E i \in 1..Len(t) : KeywordAt(t, i)
LacksCard(t)    == ~\E i \in 1..Len(t) : CardAt(t, i)
LacksDate(t)    == ~\E i \in 1..Len(t) : DateAt(t, i)

\* C10: for every text that lacks the keyword, the card token or the
\* date-time token, parse_sms raises AttributeError and returns nothing.
C10_MissingTokenIsAttributeError ==
    (res # Pending /\ (LacksKeyword(text) \/ LacksCard(text) \/ LacksDate(text))) =>
        res = [exc |-> "AttributeError"]

\* a text with card and date-time but without the keyword has been parsed
C10_Witness ==
    /\ res = [exc |-> "AttributeError"]
    /\ LacksKeyword(text)
    /\ ~LacksCard(text)
    /\ ~LacksDate(text)

-----------------------------------------------------------------------------
(* Properties of taking transactions (SpecLedger, SpecNotify)              *)

\* the update of the step is a parseable SMS text
SmsParses(o) == o.name = "sms" /\ Parsed[o.text].exc = "none"

\* the cards the chat has put on its ignore list
IgnoredBy(chat_id) == {r[2] : r \in {x \in BagToSet(ignored_cards) : x[1] = chat_id}}

IgnoredWarning(chat_id) ==
    Msg(chat_id, "You are trying to add a transaction from ignored card number.")

\* C1: when sms receives a text that parses and whose card is on the
\* sender's ignore list, the sender is warned and no row is inserted.
C1_IgnoredCardSmsWarnedNotInserted ==
    [][(SmsParses(op') /\ Parsed[op'.text].card \in IgnoredBy(op'.chat)) =>
          /\ \E n \in 1..Len(out') : out'[n] = IgnoredWarning(op'.chat)
          /\ data' = data]_vars

\* sms has answered a parseable text whose card the sender ignores
C1_Witness ==
    /\ SmsParses(op)
    /\ Parsed[op.text].card \in IgnoredBy(op.chat)
    /\ out = <<IgnoredWarning(op.chat)>>

\* the lines of an uploaded file whose text parses, split by the ignore list
LinesIgnored(o) ==
    {n \in 1..Len(o.file.lines) :
        /\ Parsed[LastField(o.file.lines[n])].exc = "none"
        /\ Parsed[LastField(o.file.lines[n])].card \in IgnoredBy(o.chat)}

LinesAdded(o) ==
    {n \in 1..Len(o.file.lines) :
        /\ Parsed[LastField(o.file.lines[n])].exc = "none"
        /\ Parsed[LastField(o.file.lines[n])].card \notin IgnoredBy(o.chat)}

\* C2: in csv_parse a line that parses and whose card the uploader ignores
\* inserts no row, counts as ignored and not as parsed and added; so the
\* reported parsed count plus the ignored count is at most the total.
C2_IgnoredLineCountedApart ==
    [][(op'.name = "csv_parse" /\ op'.file.csv /\ err' = "none") =>
          /\ out'[3].arg.k = Cardinality(LinesIgnored(op'))
          /\ out'[3].arg.i = Cardinality(LinesAdded(op'))
          /\ out'[3].arg.i + out'[3].arg.k <= out'[3].arg.j
          /\ \A r \in BagToSet(data') :
                CopiesIn(r, data') > CopiesIn(r, data) => r.card \notin IgnoredBy(op'.chat)]_vars

\* the row sms is to store for the update
SmsRow(o) == TxRow(o.chat, Username(o.user), Parsed[o.text])

\* C3: when sms receives a text that parses, whose card is not ignored and
\* whose tuple is not stored, it inserts the transaction, then sends one
\* notification to every recipient of the sender's notify list and to
\* nobody else, then reports the running total to the sender, in that order.
C3_AcceptedSmsInsertsNotifiesReports ==
    [][(/\ SmsParses(op')
        /\ Parsed[op'.text].card \notin IgnoredBy(op'.chat)
        /\ ~BagIn(SmsRow(op'), data)) =>
          LET to == to_notify(notified, op'.chat)
              n  == Cardinality(to)
          IN  /\ data' = data (+) SetToBag({SmsRow(op')})
              /\ Len(out') = n + 2
              /\ out'[1] = Msg(op'.chat, "Transaction added successfully!")
              /\ {out'[i].to : i \in 2..(n + 1)} = to
              /\ \A i \in 2..(n + 1) :
                    out'[i].text = "{} just added the following message: {}"
              /\ out'[n + 2].to = op'.chat
              /\ out'[n + 2].text \in {"Your last month's wage is {} so far",
                                        "Your wage in that month is {} so far"}]_vars

\* C6: after any sequence of operations the data table holds at most one
\* row per tuple (chat_id, name, card, date_time, amount): inserting a
\* stored tuple again leaves the table unchanged.
C6_OneRowPerTuple == \A r \in BagToSet(data) : CopiesIn(r, data) = 1

-----------------------------------------------------------------------------
(* Properties of the wage queries (SpecWage)                               *)

\* the day D of the month after, and before, month m of year y
CutoffAfter(y, m)  == IF m = 12 THEN <<y + 1, 1, separator_date, 0, 0>>
                      ELSE <<y, m + 1, separator_date, 0, 0>>
CutoffBefore(y, m) == IF m = 1 THEN <<y - 1, 12, separator_date, 0, 0>>
                      ELSE <<y, m - 1, separator_date, 0, 0>>
CutoffOf(y, m)     == <<y, m, separator_date, 0, 0>>

\* C4: with no period tokens, cutoff day D and the current date in month M,
\* wage_template sums over [D of M, D of M+1) when now.day > D and over
\* [D of M-1, D of M) when now.day <= D.
C4_CurrentPeriodWindow ==
    (op.name = "wage" /\ op.args = << >>) =>
        /\ Len(queries) = 1
        /\ queries[1].start = (IF op.now[3] > separator_date
                               THEN CutoffOf(op.now[1], op.now[2])
                               ELSE CutoffBefore(op.now[1], op.now[2]))
        /\ queries[1].end = (IF op.now[3] > separator_date
                             THEN CutoffAfter(op.now[1], op.now[2])
                             ELSE CutoffOf(op.now[1], op.now[2]))

\* the sum of the amounts of the chat's rows with start <= date_time < end
HalfOpenSum(d, chat_id, start_date, end_date) ==
    SumAmount([r \in {x \in BagToSet(d) :
                        /\ x.chat_id = chat_id
                        /\ DtKey(start_date) <= DtKey(x.date_time)
                        /\ DtKey(x.date_time) < DtKey(end_date)} |-> d[r]])

\* C5: wage_calc(owner, start, end) returns the sum of the amounts of
\* exactly the owner's transactions with start <= timestamp < end, 0 when
\* there is none; a transaction stamped exactly at end is not counted.
C5_WageCalcHalfOpen ==
    op.name = "wage" =>
        \A n \in 1..Len(queries) :
            queries[n].sum = HalfOpenSum(data, queries[n].user,
                                         queries[n].start, queries[n].end)

\* the token list names a month: one month token, or month and year
ExplicitMonth(args) ==
    \/ Len(args) = 1 /\ is_month(args[1])
    \/ Len(args) = 2 /\ is_month(args[1]) /\ is_year(args[2])

\* C12: for every accepted token list with an explicit month (one month
\* token with the current year, or month and year) wage_template sums over
\* the single window [D of month-1 in year, D of month in year), and for
\* month 12 over [D of December in year, D of January in year+1).
C12_ExplicitMonthWindow ==
    (op.name = "wage" /\ ExplicitMonth(op.args)) =>
        LET month == Num(op.args[1])
            year  == IF Len(op.args) = 2 THEN Num(op.args[2]) ELSE op.now[1]
            sd    == IF month = 12 THEN CutoffOf(year, 12)
                     ELSE <<year, month - 1, separator_date, 0, 0>>
            ed    == IF month = 12 THEN CutoffOf(year + 1, 1) ELSE CutoffOf(year, month)
        IN  /\ err = "none"
            /\ Len(queries) = 1
            /\ queries[1].start = sd
            /\ queries[1].end = ed
            /\ queries[1].sum = HalfOpenSum(data, op.chat, sd, ed)

\* C13: the month arithmetic of the period wraps the year: for every
\* current date and every accepted month the window runs from one cutoff
\* to the next, starting at D of December of the previous year when the
\* month before is month 0 and ending at D of January of the next year
\* when the month after is month 13.
C13_PeriodWrapsYear ==
    (op.name = "wage" /\ (op.args = << >> \/ ExplicitMonth(op.args))) =>
        /\ err = "none"
        /\ Len(queries) = 1
        /\ queries[1].start[3] = separator_date
        /\ queries[1].start[2] \in 1..12
        /\ queries[1].end = CutoffAfter(queries[1].start[1], queries[1].start[2])

\* C14: for one token that is a year and not a month wage_template reports
\* twelve monthly sums, over [D of month M, D of month M+1) for M = 1..12
\* with December running into January of the next year, then the yearly
\* total over [D of January, D of January of the next year).
C14_YearReport ==
    (op.name = "wage" /\ Len(op.args) = 1 /\ is_year(op.args[1])
                     /\ ~is_month(op.args[1])) =>
        LET year == Num(op.args[1])
        IN  /\ err = "none"
            /\ Len(out) = 2
            /\ Len(queries) = 13
            /\ \A m \in 1..12 :
                  /\ queries[m].start = CutoffOf(year, m)
                  /\ queries[m].end = CutoffAfter(year, m)
                  /\ queries[m].sum = HalfOpenSum(data, op.chat, CutoffOf(year, m),
                                                  CutoffAfter(year, m))
            /\ queries[13].start = CutoffOf(year, 1)
            /\ queries[13].end = CutoffOf(year + 1, 1)
            /\ queries[13].sum = HalfOpenSum(data, op.chat, CutoffOf(year, 1),
                                             CutoffOf(year + 1, 1))

\* a month token and a year token as the validators are specified
MonthToken(tok) == IsInt(tok) /\ Num(tok) \in 1..31
YearToken(tok)  == IsInt(tok) /\ Num(tok) \in 2000..2050

\* the token lists wage_template is to take
PeriodTokens(args) ==
    \/ Len(args) = 0
    \/ Len(args) = 1 /\ (MonthToken(args[1]) \/ YearToken(args[1]))
    \/ Len(args) = 2 /\ MonthToken(args[1]) /\ YearToken(args[2])

FormatError(chat_id) ==
    Msg(chat_id, "Incorrect format. Should be MM YYYY, both are optional.")

\* C15: for every token list that is not one of: no tokens, one valid
\* month, one valid year, a valid month then a valid year, wage_template
\* sends the format-error message, runs no sum query and sends no wage
\* figure.
C15_BadTokensGetFormatError ==
    (op.name = "wage" /\ ~PeriodTokens(op.args)) =>
        /\ err = "none"
        /\ out = <<FormatError(op.chat)>>
        /\ queries = << >>

\* a year followed by a month has been answered
C15_Witness ==
    /\ op.name = "wage"
    /\ op.args = <<T2017, T06>>
    /\ out = <<FormatError(op.chat)>>
    /\ data # EmptyBag

-----------------------------------------------------------------------------
(* Properties of the running total, the lookups, the notify list and the  *)
(* CSV report (SpecNotify, SpecLookup, SpecRequests)                       *)

\* the pay period that contains a datetime: from the cutoff on or before
\* it to the next cutoff
PeriodStart(dt) == IF dt[3] >= separator_date THEN CutoffOf(dt[1], dt[2])
                   ELSE CutoffBefore(dt[1], dt[2])
PeriodEnd(dt)   == IF dt[3] >= separator_date THEN CutoffAfter(dt[1], dt[2])
                   ELSE CutoffOf(dt[1], dt[2])

\* C16: after an accepted transaction the running total sms reports is the
\* sum over the pay period that contains the transaction's own timestamp,
\* so it includes the amount just inserted.
C16_RunningTotalIncludesInsert ==
    [][(/\ SmsParses(op')
        /\ Parsed[op'.text].card \notin IgnoredBy(op'.chat)
        /\ ~BagIn(SmsRow(op'), data)) =>
          LET dt == Parsed[op'.text].datetime
          IN  /\ err' = "none"
              /\ BagIn(SmsRow(op'), data')
              /\ Len(queries') = 1
              /\ queries'[1].start = PeriodStart(dt)
              /\ queries'[1].end = PeriodEnd(dt)
              /\ Len(out') > 0
              /\ out'[Len(out')].to = op'.chat
              /\ out'[Len(out')].arg =
                    HalfOpenSum(data', op'.chat, PeriodStart(dt), PeriodEnd(dt))
              /\ out'[Len(out')].arg >= Parsed[op'.text].amount]_vars

\* C17: when no row matches, chatid_from_name and name_from_chatid give a
\* not-found value and do not raise: an admin wage query and a notify add
\* or remove that name an unknown user, and the listing of the notified,
\* end with a message and without an exception.
C17_LookupOfUnknownDoesNotRaise ==
    /\ (/\ op.name = "wagedb"
        /\ op.user \in admin_list
        /\ Len(op.args) > 0
        /\ chatid_from_name(data, op.args[1]) = {}) =>
          (err = "none" /\ Len(out) > 0)
    /\ (/\ op.name = "modnotify"
        /\ Len(op.args) = 2
        /\ op.args[1] \in {ADD, REMOVE}
        /\ ~IsInt(op.args[2])
        /\ chatid_from_name(data, op.args[2]) = {}) =>
          (err = "none" /\ Len(out) > 0)
    /\ (op.name = "modnotify" /\ Len(op.args) # 2) =>
          (err = "none" /\ Len(out) > 0)

\* C18: adding recipient R for owner O any number of times leaves exactly
\* one pair (O, R), and after O's 'remove R' while (O, R) is stored the
\* pair is gone.
C18_NotifyAddOnceRemoveGone ==
    [][(op'.name = "modnotify" /\ Len(op'.args) = 2 /\ IsInt(op'.args[2])) =>
          /\ op'.args[1] = ADD =>
                CopiesIn(<<op'.chat, Num(op'.args[2])>>, notified') = 1
          /\ (op'.args[1] = REMOVE /\ BagIn(<<op'.chat, Num(op'.args[2])>>, notified)) =>
                ~BagIn(<<op'.chat, Num(op'.args[2])>>, notified')]_vars

\* the lines of an uploaded file whose text parses
LinesParsed(o) ==
    {n \in 1..Len(o.file.lines) : Parsed[LastField(o.file.lines[n])].exc = "none"}

\* C19: in csv_parse the reported total is the number of lines of the file,
\* and a line that fails to parse adds to the total only: the parsed
\* counter, the ignored counter and the rows added are bounded by the lines
\* that parse.
C19_FailedLineCountsInTotalOnly ==
    [][(op'.name = "csv_parse" /\ op'.file.csv) =>
          /\ err' = "none"
          /\ Len(out') = 3
          /\ out'[3].arg.j = Len(op'.file.lines)
          /\ out'[3].arg.i <= Cardinality(LinesParsed(op'))
          /\ out'[3].arg.k <= Cardinality(LinesParsed(op'))
          /\ BagCardinality(data') - BagCardinality(data)
                <= Cardinality(LinesParsed(op'))]_vars

-----------------------------------------------------------------------------
(* Properties of the purges and the admin commands (SpecPurge)             *)

\* the step removes a copy of some stored row
RowsLost == \E r \in BagToSet(data) : CopiesIn(r, data') < CopiesIn(r, data)

\* C7: /purgedb or /purgeuser alone leaves the data table unchanged, a
\* button press whose token is neither DROPDB nor DROPUSER deletes nothing,
\* and rows are deleted only by a button press with the matching token:
\* DROPDB, or DROPUSER for rows of the chat of the press.
C7_PurgeOnlyOnConfirmation ==
    [][/\ op'.name \in {"purgedb", "purgeuser"} => data' = data
       /\ (op'.name = "button" /\ op'.token \notin {"DROPDB", "DROPUSER"}) => data' = data
       /\ RowsLost =>
            /\ op'.name = "button"
            /\ op'.token \in {"DROPDB", "DROPUSER"}
            /\ op'.token = "DROPUSER" =>
                  \A r \in BagToSet(data) :
                      CopiesIn(r, data') < CopiesIn(r, data) => r.chat_id = op'.chat]_vars

\* an admin has issued /purgedb and the stored rows are still there
C7_Witness ==
    /\ op.name = "purgedb"
    /\ op.user \in admin_list
    /\ <<op.chat, "DROPDB">> \in keyboards
    /\ data # EmptyBag

Refusal(chat_id) == Msg(chat_id, "You don't have access to this command.")

\* C8: purge_all runs only on behalf of an admin: for a user outside
\* admin_list neither /purgedb nor a DROPDB press deletes a row, and
\* /purgedb, /dumpdb and /wagedb answer such a user with the refusal
\* message and have no other effect.
C8_PurgeAllOnlyForAdmins ==
    [][op'.user \notin admin_list =>
          /\ (op'.name = "purgedb" \/ (op'.name = "button" /\ op'.token = "DROPDB"))
                => ~RowsLost
          /\ op'.name \in {"purgedb", "dumpdb", "wagedb"} =>
                /\ out' = <<Refusal(op'.chat)>>
                /\ UNCHANGED <<data, ignored_cards, notified, keyboards>>]_vars

-----------------------------------------------------------------------------
(* Properties of the handlers' error handling (SpecRequests)               *)

Unparsable(chat_id) == Msg(chat_id, "Unable to parse. Please, send valid SMS!")

\* the texts that end wage_template
WageEndings ==
    {"Wage in that period was {}",
     "Incorrect format. Should be MM YYYY, both are optional."}

\* C11: no parsing or validation error leaves a handler: a text sms does
\* not accept is answered with the 'unable to parse' message, every CSV
\* upload runs to its final report over all its lines, and every token list
\* given to wage_template ends in a wage report or the format-error message.
C11_NoInputErrorLeavesHandler ==
    /\ (op.name = "sms" /\ Parsed[op.text].exc # "none") =>
          (err = "none" /\ out = <<Unparsable(op.chat)>>)
    /\ (op.name = "csv_parse" /\ op.file.csv) =>
          (err = "none" /\ Len(out) = 3 /\ out[3].arg.j = Len(op.file.lines))
    /\ op.name = "wage" =>
          (err = "none" /\ Len(out) > 0 /\ out[Len(out)].text \in WageEndings)

-----------------------------------------------------------------------------
(* Properties of the life of a stored row (SpecKeep)                       *)

\* C20: stored transactions are never altered and are removed only by a
\* purge: the purge of owner O removes exactly the rows of O and leaves
\* the rows of every other owner and the ignored-card and notify rows as
\* they are, and sms, a CSV upload, a wage query and a change of the
\* ignore or notify list remove or alter no stored row.
C20_RowsLeaveOnlyByPurge ==
    [][/\ RowsLost =>
            (op'.name = "button" /\ op'.token \in {"DROPDB", "DROPUSER"})
       /\ (op'.name = "button" /\ op'.token = "DROPUSER") =>
            /\ \A r \in BagToSet(data) \cup BagToSet(data') :
                  CopiesIn(r, data') = (IF r.chat_id = op'.chat THEN 0
                                        ELSE CopiesIn(r, data))
            /\ UNCHANGED <<ignored_cards, notified>>
       /\ op'.name \in {"sms", "csv_parse", "wage", "modignore", "modnotify"} =>
            \A r \in BagToSet(data) : CopiesIn(r, data') >= CopiesIn(r, data)]_vars

\* an owner has purged their rows while another owner's rows and the two
\* lists are stored
C20_Witness ==
    /\ op.name = "button"
    /\ op.token = "DROPUSER"
    /\ out = <<Msg(op.chat, "Purging your info from the database..."),
               Msg(op.chat, "DONE!")>>
    /\ data # EmptyBag
    /\ ignored_cards # EmptyBag
    /\ notified # EmptyBag

-----------------------------------------------------------------------------
(* Confirmation of a purge                                                 *)

\* the step is a press of DROPDB or DROPUSER on which the purge ran
PurgeRan ==
    /\ op'.name = "button"
    /\ op'.token \in {"DROPDB", "DROPUSER"}
    /\ Msg(op'.chat, "DONE!") \in {out'[n] : n \in DOMAIN out'}

\* C21: purge_all or purge_user runs on a press only if the owner who
\* pressed has asked for that purge with the matching command and has not
\* cancelled it since; a press without such a pending prompt does nothing.
C21_PurgeNeedsPendingPrompt ==
    [][PurgeRan => <<op'.user, op'.chat, op'.token>> \in prompts]_vars

-----------------------------------------------------------------------------
(* The ignore list and the uploads; the upload that stops half way         *)

\* what parse_sms gives for line n of the uploaded file
LineParsed(o, n) == Parsed[LastField(o.file.lines[n])]

\* the lines of the uploaded file the loop of csv_parse gets to: those
\* that no line raising another exception than AttributeError precedes
LinesReached(o) ==
    {n \in 1..Len(o.file.lines) :
        \A m \in 1..(n - 1) : LineParsed(o, m).exc \in {"none", "AttributeError"}}

\* the lines the loop accepts: reached, parsed, card not ignored by the uploader
LinesAccepted(o) ==
    {n \in LinesReached(o) :
        /\ LineParsed(o, n).exc = "none"
        /\ LineParsed(o, n).card \notin IgnoredBy(o.chat)}

\* the row line n of the uploaded file is stored as
LineRow(o, n) == TxRow(o.chat, Username(o.user), LineParsed(o, n))

\* /modignore add CARD or /modignore remove CARD with a well-formed card
IgnoreRequest(o, verb) ==
    /\ o.name = "modignore"
    /\ Len(o.args) = 2
    /\ o.args[1] = verb
    /\ valid_card(o.args[2])

\* C22: while card C is on owner O's ignore list no CSV upload of O inserts
\* a row with card C; /modignore add puts C on the list once, however often
\* it is repeated, and one /modignore remove takes it off, after which a
\* line with card C that the loop gets to is inserted again; nothing but
\* O's own add or remove of C changes whether O ignores C, and an upload
\* is judged by the uploader's list alone.
C22_IgnoreListGovernsOwnUploads ==
    [][/\ (op'.name = "csv_parse" /\ op'.file.csv) =>
            /\ \A r \in BagToSet(data') :
                    CopiesIn(r, data') > CopiesIn(r, data) =>
                        r.chat_id = op'.chat /\ r.card \notin IgnoredBy(op'.chat)
            /\ \A n \in LinesAccepted(op') : BagIn(LineRow(op', n), data')
       /\ IgnoreRequest(op', ADD) =>
            CopiesIn(<<op'.chat, op'.args[2]>>, ignored_cards') = 1
       /\ IgnoreRequest(op', REMOVE) =>
            CopiesIn(<<op'.chat, op'.args[2]>>, ignored_cards') = 0
       /\ \A p \in BagToSet(ignored_cards) \cup BagToSet(ignored_cards') :
            CopiesIn(p, ignored_cards') # CopiesIn(p, ignored_cards) =>
                /\ IgnoreRequest(op', ADD) \/ IgnoreRequest(op', REMOVE)
                /\ p = <<op'.chat, op'.args[2]>>]_vars

\* chat 1, ignoring VISA1234 while chat 2 ignores MIRR5678, has uploaded a
\* file with a line of each card: the first was ignored, the second stored
C22_Witness ==
    /\ op.name = "csv_parse" /\ op.chat = 1
    /\ op.file.lines = <<CsvLine(SMS_IN), SMS_EDGE>>
    /\ IgnoredBy(1) = {VISA1234}
    /\ IgnoredBy(2) = {MIRR5678}
    /\ out[3].arg.k = 1
    /\ BagIn(LineRow(op, 2), data)
    /\ ~BagIn(LineRow(op, 1), data)

\* the line at which the loop of csv_parse stopped
StopLine(o) ==
    CHOOSE n \in LinesReached(o) : LineParsed(o, n).exc \notin {"none", "AttributeError"}

\* C23: when csv_parse stops before the end of the file, the row of every
\* line accepted before the stop is in the data table, the rows stored
\* before the upload are still there, and no row has come from the line of
\* the stop or a later one.
C23_StoppedUploadKeepsEarlierRows ==
    [][(op'.name = "csv_parse" /\ op'.file.csv /\ err' # "none") =>
          LET before == {n \in LinesAccepted(op') : n < StopLine(op')}
          IN  /\ \A n \in before : BagIn(LineRow(op', n), data')
              /\ \A r \in BagToSet(data) : CopiesIn(r, data') >= CopiesIn(r, data)
              /\ \A r \in BagToSet(data') :
                    CopiesIn(r, data') > CopiesIn(r, data) =>
                        \E n \in before : r = LineRow(op', n)]_vars

\* an upload stopped at its second line: the row of the first line is
\* stored and the row of the third is not
C23_Witness ==
    /\ op.name = "csv_parse"
    /\ err = "ValueError"
    /\ op.file.lines = <<SMS_EDGE, CsvLine(SMS_BADDATE), CsvLine(SMS_IN)>>
    /\ BagIn(LineRow(op, 1), data)
    /\ ~BagIn(LineRow(op, 3), data)

-----------------------------------------------------------------------------
(* The whole-year query: the total against the months                      *)

RECURSIVE MonthlySums(_, _)
\* the sum of the first n sums wage_calc returned to the handler
MonthlySums(qs, n) == IF n = 0 THEN 0 ELSE qs[n].sum + MonthlySums(qs, n - 1)

\* C24: in the answer to the whole-year query the yearly total is the sum
\* of the twelve monthly sums, whatever the ledger holds: a transaction of
\* the year window counts in exactly one month, one at a cutoff included.
C24_YearTotalIsSumOfMonths ==
    (op.name = "wage" /\ Len(op.args) = 1 /\ is_year(op.args[1])
                     /\ ~is_month(op.args[1]) /\ err = "none") =>
        queries[13].sum = MonthlySums(queries, 12)

-----------------------------------------------------------------------------
(* Isolation of the owners                                                 *)

\* the windows /wage asks wage_calc about: the current period at each
\* moment of the clock, and the months and the whole of 2017
WageWindows ==
    {<<current_window(now)[1].val, current_window(now)[2].val>> :
        now \in {t \in Nows : current_window(t)[1].ok /\ current_window(t)[2].ok}}
    \cup {<<year_windows(2017)[i][1].val, year_windows(2017)[i][2].val>> : i \in 1..13}

\* what owner a would be told now: the record count, the export of
\* /formcsv and the sum of /wage for each of the windows
Told(a) ==
    [records |-> user_records(data, a),
     export  |-> user_data(data, a),
     wages   |-> [w \in WageWindows |-> wage_calc(data, a, w[1], w[2])]]

\* C25: whatever an owner B does in their chat (sms, CSV upload, change of
\* the ignore or notify list, wage query, purge of B's own records) leaves
\* the record count, the export and every wage sum of another owner A as
\* they were; only the purge of the whole store reaches A's data.
C25_OwnersAreIsolated ==
    [][\A a \in {s[2] : s \in PrivateSenders} :
          (op'.chat # a /\ ~(op'.name = "button" /\ op'.token = "DROPDB")) =>
              Told(a)' = Told(a)]_vars

\* owner 2 has uploaded a line that was stored and owner 1 has rows too
C25_Witness ==
    /\ op.name = "csv_parse" /\ op.chat = 2
    /\ op.file.csv /\ err = "none"
    /\ out[3].arg.i >= 1
    /\ user_records(data, 2) >= 1
    /\ user_records(data, 1) >= 1

====
